---- MODULE Spec2Model ----
(***************************************************************************)
(* Model of the txtai API gateway (src/python/txtai/api/base.py, class     *)
(* API): the document buffer, the write lock, the local index / cluster    *)
(* dispatch and the request operations, called concurrently by threads.    *)
(***************************************************************************)
EXTENDS Integers, Sequences, FiniteSets, TLC

\* ------------------------------------------------------------------ bounds
\* Number of request threads calling the gateway concurrently.
NumThreads == 2
\* Upper bound on the number of API calls started in one behaviour.
MaxCalls == 3
\* Longest batch handed to add.
MaxBatch == 2
\* Largest caller-supplied document id.
MaxId == 1
\* Largest id held by an index loaded at construction.
MaxLoaded == 1
\* Most documents add is given to buffer between two flushes.
MaxBuf == 2

\* Most workflows in config["workflow"].
MaxWorkflows == 3
\* Worker threads of the pool.
NumWorkers == 2
\* Upper bound on the number of wait() calls in one behaviour.
MaxWaits == 2

\* How far below 0 and above the upper clamp the arguments of limit go.
LimitSpan == 5
\* Longest result list an index or pipeline returns.
MaxResults == 2
\* Most queries in one batch call.
MaxQueries == 2

\* Longest list of action names in a task.
MaxActions == 2
\* Upper bound on the number of times resolve is applied to a task.
MaxResolves == 2

\* ------------------------------------------------------------- constants
\* limit(): API.limit, the default and the two clamps.
DefaultLimit == 10
MinLimit == 1
MaxLimit == 250

\* Python's None.
None == "None"
\* Marker for "this document carries no id of its own" (a bare string).
NoId == -1

Threads == 1..NumThreads
SuppliedIds == 1..MaxId

\* ------------------------------------------------------------ documents
\* A bare text document (Python str).
Str(text) == [kind |-> "str", id |-> NoId, text |-> text, tags |-> None]
\* A dictionary document {id: value, text: value}.
Dict(id, text) == [kind |-> "dict", id |-> id, text |-> text, tags |-> None]
\* A partial tuple (id, text).
Tuple2(id, text) == [kind |-> "tuple2", id |-> id, text |-> text, tags |-> None]
\* A full tuple (id, text, tags).
Tuple3(id, text, tags) == [kind |-> "tuple3", id |-> id, text |-> text, tags |-> tags]

Texts == {"a"}
Docs ==
  {Str(x) : x \in Texts}
    \cup {Dict(i, x) : i \in SuppliedIds, x \in Texts}
    \cup {Tuple2(i, x) : i \in SuppliedIds, x \in Texts}
    \cup {Tuple3(i, x, "tag") : i \in SuppliedIds, x \in Texts}

\* Inputs of add: every batch of at most MaxBatch documents.
Batches == UNION {[1..n -> Docs] : n \in 0..MaxBatch}

\* Pipeline registries built by pipes(): none configured, or both the similarity and
\* the extractor pipeline.
PipelineConfigs == {{}, {"similarity", "extractor"}}

\* Inputs of delete: lists of ids.
DeleteArgs == {<<i>> : i \in 0..MaxId}

\* Inputs of search: the "limit" parameter, None (NoLimit), an integer, or the
\* decimal string of an integer (a query parameter).
NoLimit == [given |-> FALSE, text |-> FALSE, n |-> 0]
Given(n) == [given |-> TRUE, text |-> FALSE, n |-> n]
Text(n) == [given |-> TRUE, text |-> TRUE, n |-> n]
LimitInputs == {NoLimit} \cup {Given(n) : n \in {0, 5, 1000, -3}}

VARIABLES
  cluster,     \* self.cluster is set (config has "cluster")
  embeddings,  \* self.embeddings is set (a local index exists)
  writable,    \* config.get("writable")
  path,        \* config.get("path")
  scoring,     \* self.embeddings.scoring
  pipelines,   \* names registered in self.pipelines
  documents,   \* self.documents: Absent (None) or a Documents object
  lock,        \* self.lock: the set of threads inside "with self.lock"
  embIds,      \* ids held by the local index
  pc,          \* per thread: position in the call it is running
  arg,         \* per thread: argument of the running call
  create,      \* per thread: add found no buffer (line 297)
  idx,         \* per thread: add's local "index" (line 301)
  calls,       \* number of API calls started
  ev,          \* the last step: which operation, which collaborator calls, result
  submitted,   \* documents of the add calls that returned since the last buffer reset
  moved,       \* the local index changed since the buffer was created
  handed,      \* the documents the last flush handed to the local index
  workflows,   \* config["workflow"]: per workflow, whether it carries a schedule
  pos,         \* flows(): the workflow the loop of line 134 handles next
  pool,        \* self.pool: absent (None) or a ThreadPool, open or closed
  created,     \* number of ThreadPool() constructions
  jobs,        \* the pool's submissions, in order: workflow and progress
  wpc,         \* position of the thread calling wait()
  waits,       \* number of wait() calls started
  wev,         \* how the last wait() call returned
  fn,          \* the function applied to an argument on its own
  input,       \* its argument
  output,      \* its result
  task,        \* a workflow task: action, initialize, finalize, unpack
  task0,       \* the task as the configuration gave it
  resolves,    \* number of times resolve was applied to the task
  rev          \* the last resolve: whether it raised, how many function() calls it made

\* The gateway state the request operations work on.
gateway ==
  <<cluster, embeddings, writable, path, scoring, pipelines, documents, lock,
    embIds, pc, arg, create, idx, calls, ev, submitted, moved, handed>>

\* The scheduler state: workflows, the pool and its jobs, the caller of wait().
sched == <<workflows, pos, pool, created, jobs, wpc, waits, wev>>

\* A function applied on its own: which one, its argument, its result.
pure == <<fn, input, output>>

\* The action resolver's state.
resolver == <<task, task0, resolves, rev>>

\* State the request operations never touch.
others == <<sched, pure, resolver>>

vars == <<gateway, others>>

config == <<cluster, embeddings, writable, path, scoring, pipelines>>

\* ------------------------------------------------------------ results
Running == [kind |-> "running", val |-> 0]
RetNone == [kind |-> "None", val |-> 0]
RetInput(x) == [kind |-> "input", val |-> x]
RetInt(n) == [kind |-> "int", val |-> n]
RetIds(s) == [kind |-> "ids", val |-> s]
RetCluster == [kind |-> "cluster", val |-> 0]
RetLocal == [kind |-> "local", val |-> 0]
RetPipeline == [kind |-> "pipeline", val |-> 0]
Raised == [kind |-> "raised", val |-> 0]

Event(op, cs, ret, nobuf) ==
  [op |-> op, calls |-> cs, ret |-> ret, nobuf |-> nobuf]

\* ------------------------------------------------- Python helper semantics
\* self.documents = None
Absent == [exists |-> FALSE, docs |-> <<>>]
\* A Documents object holding the triples d (Documents() holds none).
Documents(d) == [exists |-> TRUE, docs |-> d]

\* The buffer has not been handed to index or upsert since it was created.
NotHanded == [state |-> "no", docs |-> <<>>]
\* The buffer d is handed to index or upsert: for the first time, again after a
\* flush that raised, or twice.
Hand(h, d) ==
  [state |-> CASE h.state = "no" -> "once"
               [] h.state = "failed" -> "failed"
               [] OTHER -> "twice",
   docs |-> d.docs]
\* A flush that had handed the buffer over raised before resetting it.
FlushFailed(h) == [h EXCEPT !.state = "failed"]

\* Truth value of self.documents: None is false, and so is a Documents object of
\* length 0 (it has __len__, used at line 301).
Truthy(d) == d.exists /\ Len(d.docs) > 0

\* len(self.documents) at line 301.
BufLen(d) == Len(d.docs)

\* ------------------------------------------------- local index (Embeddings)
\* Embeddings.count()
EmbCount(ids) == Cardinality(ids)
\* Ids of a buffer's triples.
TripleIds(d) == {d.docs[i][1] : i \in 1..Len(d.docs)}
\* Embeddings.index(documents): full build from the buffer.
EmbIndex(ids, d) == TripleIds(d)
\* Embeddings.upsert(documents): incremental merge.
EmbUpsert(ids, d) == ids \cup TripleIds(d)
\* Embeddings.delete(ids): removes the ids, returns those deleted.
EmbDelete(ids, del) == ids \ del

\* ------------------------------------------------------------ API.limit
\* max(1, min(250, int(limit) if limit else 10))
Min(a, b) == IF a < b THEN a ELSE b
Max(a, b) == IF a > b THEN a ELSE b
\* Truth value of the argument: None and 0 are false, a non-empty string is true.
LimitTruthy(x) == x.given /\ (x.text \/ x.n # 0)
\* int(limit): an integer is itself, a decimal string is the integer it spells.
int(x) == x.n
limitNoFloor(x) ==
  LET v == IF LimitTruthy(x) THEN int(x) ELSE DefaultLimit
  IN  Min(MaxLimit, v)
limit(x) ==
  LET v == IF LimitTruthy(x) THEN int(x) ELSE DefaultLimit
  IN  Max(MinLimit, Min(MaxLimit, v))

\* ------------------------------------------------------------ API.count
count ==
  IF cluster THEN RetCluster
  ELSE IF embeddings THEN RetInt(EmbCount(embIds))
  ELSE RetNone

\* ------------------------------------------------------------ lock
\* with self.lock: the lock can be taken only when no thread holds it.
LockFreeBroken == TRUE
LockFree == lock = {}
\* count() (lines 394-399) has no "with self.lock": it can run whoever holds the lock,
\* the thread that called it from inside add's with block included.
CountWaitsForLock == LockFree
CountCanRun == TRUE
\* Leaving the with block, normally or by an exception, releases the lock.
ExitLockLeak(t, raised) == IF raised THEN lock ELSE lock \ {t}
ExitLock(t, raised) == lock \ {t}

\* ------------------------------------------------------------ API.add
\* Line 291: a configured cluster takes the call.
UseClusterAfterLocal == cluster /\ ~embeddings
UseCluster == cluster
\* Line 293: the local branch of add.
AddLocalNoCheck == embeddings
AddLocal == embeddings /\ writable

\* Lines 303-312: one document to its (id, text, element) triple.
Normalize(document, index) ==
  CASE document.kind = "dict" -> <<document.id, document, None>>
    [] document.kind = "str" -> <<index, document, None>>
    [] document.kind = "tuple2" -> <<document.id, Str(document.text), None>>
    [] OTHER -> <<document.id, Str(document.text), document.tags>>

\* Lines 300-315: the batch built from the input, index counting the bare strings.
NormalizeBatchNoIncrement(docs, index) ==
  [i \in 1..Len(docs) |-> Normalize(docs[i], index)]
RECURSIVE NormalizeBatch(_, _)
NormalizeBatch(docs, index) ==
  IF docs = <<>> THEN <<>>
  ELSE <<Normalize(Head(docs), index)>>
         \o NormalizeBatch(Tail(docs),
                           IF Head(docs).kind = "str" THEN index + 1 ELSE index)

\* Line 301: index = self.count() + len(self.documents)
StartIndex == count.val + BufLen(documents)

\* Documents.add(batch) at line 318.
DocumentsAdd(d, batch) == Documents(d.docs \o batch)

Start(t) == pc[t] = "idle" /\ calls < MaxCalls /\ calls' = calls + 1

\* Documents handed to add calls that have not returned yet.
AddPcs == {"add_lock", "add_check", "add_create", "add_index", "add_append"}
InFlight ==
  LET F[n \in 0..NumThreads] ==
        IF n = 0 THEN 0
        ELSE F[n - 1] + (IF pc[n] \in AddPcs THEN Len(arg[n]) ELSE 0)
  IN  F[NumThreads]

AddCall(t) ==
  \E docs \in Batches :
    /\ Start(t)
    /\ Len(submitted) + InFlight + Len(docs) <= MaxBuf
    /\ IF UseCluster THEN
         /\ ev' = Event("add", {<<"cluster", "add">>}, RetInput(docs), FALSE)
         /\ UNCHANGED <<pc, arg>>
       ELSE IF AddLocal THEN
         /\ pc' = [pc EXCEPT ![t] = "add_lock"]
         /\ arg' = [arg EXCEPT ![t] = docs]
         /\ ev' = Event("add", {}, Running, FALSE)
       ELSE
         /\ ev' = Event("add", {}, RetInput(docs), FALSE)
         /\ UNCHANGED <<pc, arg>>
    /\ UNCHANGED <<config, others, documents, lock, embIds, create, idx, submitted, moved, handed>>

\* Line 294: with self.lock
AddAcquire(t) ==
  /\ pc[t] = "add_lock"
  /\ LockFree
  /\ lock' = lock \cup {t}
  /\ pc' = [pc EXCEPT ![t] = "add_check"]
  /\ ev' = Event("add", {}, Running, FALSE)
  /\ UNCHANGED <<config, others, documents, embIds, arg, create, idx, calls, submitted, moved, handed>>

\* Line 297: if not self.documents
AddCheck(t) ==
  /\ pc[t] = "add_check"
  /\ create' = [create EXCEPT ![t] = ~Truthy(documents)]
  /\ pc' = [pc EXCEPT ![t] = IF ~Truthy(documents) THEN "add_create" ELSE "add_index"]
  /\ ev' = Event("add", {}, Running, FALSE)
  /\ UNCHANGED <<config, others, documents, lock, embIds, arg, idx, calls, submitted, moved, handed>>

\* Line 298: self.documents = Documents()
AddCreate(t) ==
  /\ pc[t] = "add_create"
  /\ documents' = Documents(<<>>)
  /\ pc' = [pc EXCEPT ![t] = "add_index"]
  /\ ev' = Event("add", {}, Running, FALSE)
  /\ moved' = FALSE
  /\ handed' = NotHanded
  /\ UNCHANGED <<config, others, lock, embIds, arg, create, idx, calls, submitted>>

\* Line 301: index = self.count() + len(self.documents)
AddIndex(t) ==
  /\ pc[t] = "add_index"
  /\ CountCanRun
  /\ idx' = [idx EXCEPT ![t] = StartIndex]
  /\ pc' = [pc EXCEPT ![t] = "add_append"]
  /\ ev' = Event("add", {<<"embeddings", "count">>}, Running, FALSE)
  /\ UNCHANGED <<config, others, documents, lock, embIds, arg, create, calls, submitted, moved, handed>>

\* Lines 302-321: build the batch, self.documents.add(batch), leave the with block,
\* return the input documents.
AddAppend(t) ==
  /\ pc[t] = "add_append"
  /\ documents' = DocumentsAdd(documents, NormalizeBatch(arg[t], idx[t]))
  /\ submitted' = submitted \o arg[t]
  /\ lock' = ExitLock(t, FALSE)
  /\ pc' = [pc EXCEPT ![t] = "idle"]
  /\ ev' = Event("add", {}, RetInput(arg[t]), FALSE)
  /\ arg' = [arg EXCEPT ![t] = <<>>]
  /\ create' = [create EXCEPT ![t] = FALSE]
  /\ idx' = [idx EXCEPT ![t] = 0]
  /\ UNCHANGED <<config, others, embIds, calls, moved, handed>>

\* ------------------------------------------------- API.index / API.upsert
\* Lines 330 and 354: the local branch of a flush, tested before the lock is taken.
FlushLocal == embeddings /\ writable /\ Truthy(documents)

\* A step of a running call that raises: the exception leaves the with block, which
\* releases the lock, and reaches the caller.
Raise(t, op, cs, nobuf) ==
  /\ lock' = ExitLock(t, TRUE)
  /\ pc' = [pc EXCEPT ![t] = "idle"]
  /\ ev' = Event(op, cs, Raised, nobuf)

\* A step inside the with block that goes on to the next statement.
Goto(t, op, cs, to) ==
  /\ pc' = [pc EXCEPT ![t] = to]
  /\ ev' = Event(op, cs, Running, FALSE)
  /\ UNCHANGED lock

\* Lines 340-341 and 360-361: self.embeddings.save(path), which may fail.
FlushSave(t, op, to) ==
  /\ \/ Goto(t, op, {<<"embeddings", "save">>}, to) /\ UNCHANGED handed
     \/ Raise(t, op, {<<"embeddings", "save">>}, FALSE) /\ handed' = FlushFailed(handed)
  /\ UNCHANGED <<config, others, documents, embIds, arg, create, idx, calls, submitted, moved>>

\* The buffer after "self.documents.close(); self.documents = None".
ResetBuffer(d) == Absent

\* Lines 344-345 and 364-365: close and drop the buffer, leave the with block, return.
\* With no buffer (None) the close raises AttributeError.
FlushReset(t, op) ==
  /\ IF documents.exists THEN
       /\ documents' = ResetBuffer(documents)
       /\ submitted' = <<>>
       /\ moved' = FALSE
       /\ handed' = NotHanded
       /\ lock' = ExitLock(t, FALSE)
       /\ pc' = [pc EXCEPT ![t] = "idle"]
       /\ ev' = Event(op, {<<"documents", "close">>}, RetNone, FALSE)
     ELSE
       /\ Raise(t, op, {<<"documents", "close">>}, TRUE)
       /\ UNCHANGED <<documents, submitted, moved, handed>>
  /\ UNCHANGED <<config, others, embIds, arg, create, idx, calls>>

\* Where a flush goes after building: the save if a path is configured (lines 340, 360).
AfterBuildSkipSave(op) == IF op = "index" THEN "index_reset" ELSE "upsert_reset"
AfterBuild(op) ==
  IF path THEN (IF op = "index" THEN "index_save" ELSE "upsert_save")
  ELSE (IF op = "index" THEN "index_reset" ELSE "upsert_reset")

IndexCall(t) ==
  /\ Start(t)
  /\ IF UseCluster THEN
       /\ ev' = Event("index", {<<"cluster", "index">>}, RetNone, FALSE)
       /\ UNCHANGED pc
     ELSE IF FlushLocal THEN
       /\ pc' = [pc EXCEPT ![t] = "index_lock"]
       /\ ev' = Event("index", {}, Running, FALSE)
     ELSE
       /\ ev' = Event("index", {}, RetNone, FALSE)
       /\ UNCHANGED pc
  /\ UNCHANGED <<config, others, documents, lock, embIds, arg, create, idx, submitted, moved, handed>>

\* Line 331: with self.lock; line 333 reads self.embeddings.scoring.
IndexAcquire(t) ==
  /\ pc[t] = "index_lock"
  /\ LockFree
  /\ lock' = lock \cup {t}
  /\ pc' = [pc EXCEPT ![t] = IF scoring THEN "index_score" ELSE "index_build"]
  /\ ev' = Event("index", {}, Running, FALSE)
  /\ UNCHANGED <<config, others, documents, embIds, arg, create, idx, calls, submitted, moved, handed>>

\* Line 334: self.embeddings.score(self.documents); it iterates the buffer and so
\* raises when handed None.
IndexScore(t) ==
  /\ pc[t] = "index_score"
  /\ IF documents.exists
       THEN Goto(t, "index", {<<"embeddings", "score">>}, "index_build")
       ELSE Raise(t, "index", {<<"embeddings", "score">>}, TRUE)
  /\ UNCHANGED <<config, others, documents, embIds, arg, create, idx, calls, submitted, moved, handed>>

\* Line 337: self.embeddings.index(self.documents)
IndexBuild(t) ==
  /\ pc[t] = "index_build"
  /\ IF documents.exists THEN
       /\ embIds' = EmbIndex(embIds, documents)
       /\ moved' = TRUE
       /\ handed' = Hand(handed, documents)
       /\ Goto(t, "index", {<<"embeddings", "index">>}, AfterBuild("index"))
     ELSE
       /\ Raise(t, "index", {<<"embeddings", "index">>}, TRUE)
       /\ UNCHANGED <<embIds, moved, handed>>
  /\ UNCHANGED <<config, others, documents, arg, create, idx, calls, submitted>>

IndexSave(t) == pc[t] = "index_save" /\ FlushSave(t, "index", "index_reset")

IndexReset(t) == pc[t] = "index_reset" /\ FlushReset(t, "index")

UpsertCall(t) ==
  /\ Start(t)
  /\ IF UseCluster THEN
       /\ ev' = Event("upsert", {<<"cluster", "upsert">>}, RetNone, FALSE)
       /\ UNCHANGED pc
     ELSE IF FlushLocal THEN
       /\ pc' = [pc EXCEPT ![t] = "upsert_lock"]
       /\ ev' = Event("upsert", {}, Running, FALSE)
     ELSE
       /\ ev' = Event("upsert", {}, RetNone, FALSE)
       /\ UNCHANGED pc
  /\ UNCHANGED <<config, others, documents, lock, embIds, arg, create, idx, submitted, moved, handed>>

\* Line 355: with self.lock
UpsertAcquire(t) ==
  /\ pc[t] = "upsert_lock"
  /\ LockFree
  /\ lock' = lock \cup {t}
  /\ pc' = [pc EXCEPT ![t] = "upsert_run"]
  /\ ev' = Event("upsert", {}, Running, FALSE)
  /\ UNCHANGED <<config, others, documents, embIds, arg, create, idx, calls, submitted, moved, handed>>

\* Line 357: self.embeddings.upsert(self.documents)
UpsertRun(t) ==
  /\ pc[t] = "upsert_run"
  /\ IF documents.exists THEN
       /\ embIds' = EmbUpsert(embIds, documents)
       /\ moved' = TRUE
       /\ handed' = Hand(handed, documents)
       /\ Goto(t, "upsert", {<<"embeddings", "upsert">>}, AfterBuild("upsert"))
     ELSE
       /\ Raise(t, "upsert", {<<"embeddings", "upsert">>}, TRUE)
       /\ UNCHANGED <<embIds, moved, handed>>
  /\ UNCHANGED <<config, others, documents, arg, create, idx, calls, submitted>>

UpsertSave(t) == pc[t] = "upsert_save" /\ FlushSave(t, "upsert", "upsert_reset")

UpsertReset(t) == pc[t] = "upsert_reset" /\ FlushReset(t, "upsert")

\* ------------------------------------------------------------ API.delete
\* Line 380: the local branch of delete.
DeleteLocalNoCheck == embeddings
DeleteLocal == embeddings /\ writable

DeleteCall(t) ==
  \E ids \in DeleteArgs :
    /\ Start(t)
    /\ IF UseCluster THEN
         /\ ev' = Event("delete", {<<"cluster", "delete">>}, RetCluster, FALSE)
         /\ UNCHANGED <<pc, arg>>
       ELSE IF DeleteLocal THEN
         /\ pc' = [pc EXCEPT ![t] = "delete_lock"]
         /\ arg' = [arg EXCEPT ![t] = ids]
         /\ ev' = Event("delete", {}, Running, FALSE)
       ELSE
         /\ ev' = Event("delete", {}, RetNone, FALSE)
         /\ UNCHANGED <<pc, arg>>
    /\ UNCHANGED <<config, others, documents, lock, embIds, create, idx, submitted, moved, handed>>

\* Line 381: with self.lock
DeleteAcquire(t) ==
  /\ pc[t] = "delete_lock"
  /\ LockFree
  /\ lock' = lock \cup {t}
  /\ pc' = [pc EXCEPT ![t] = "delete_run"]
  /\ ev' = Event("delete", {}, Running, FALSE)
  /\ UNCHANGED <<config, others, documents, embIds, arg, create, idx, calls, submitted, moved, handed>>

\* Line 382: return self.embeddings.delete(ids)
DeleteRun(t) ==
  LET ids == {arg[t][i] : i \in 1..Len(arg[t])} IN
  /\ pc[t] = "delete_run"
  /\ embIds' = EmbDelete(embIds, ids)
  /\ moved' = (moved \/ Truthy(documents))
  /\ lock' = ExitLock(t, FALSE)
  /\ pc' = [pc EXCEPT ![t] = "idle"]
  /\ arg' = [arg EXCEPT ![t] = <<>>]
  /\ ev' = Event("delete", {<<"embeddings", "delete">>}, RetIds(ids \cap embIds), FALSE)
  /\ UNCHANGED <<config, others, documents, create, idx, calls, submitted, handed>>

\* ------------------------------------------------- read operations
\* A call that runs in one step and changes nothing of the gateway.
Read(t, op, cs, ret) ==
  /\ Start(t)
  /\ ev' = Event(op, cs, ret, FALSE)
  /\ UNCHANGED <<config, others, documents, lock, embIds, pc, arg, create, idx, submitted, moved, handed>>

\* Lines 243-249 (search), 265-276 (batchsearch): cluster first, then the local
\* index, else None.
DispatchLocalFirst(t, op, val) ==
  IF embeddings THEN Read(t, op, {<<"embeddings", op>>}, [kind |-> "local", val |-> val])
  ELSE IF UseCluster THEN Read(t, op, {<<"cluster", op>>}, [kind |-> "cluster", val |-> val])
  ELSE Read(t, op, {}, RetNone)
Dispatch(t, op, val) ==
  IF UseCluster THEN Read(t, op, {<<"cluster", op>>}, [kind |-> "cluster", val |-> val])
  ELSE IF embeddings THEN Read(t, op, {<<"embeddings", op>>}, [kind |-> "local", val |-> val])
  ELSE Read(t, op, {}, RetNone)

\* Lines 416-421 and 438-443: the similarity pipeline first, then the local index.
SimilarityDispatch(t, op) ==
  IF "similarity" \in pipelines THEN Read(t, op, {<<"pipeline", "similarity">>}, RetPipeline)
  ELSE IF embeddings THEN Read(t, op, {<<"embeddings", op>>}, RetLocal)
  ELSE Read(t, op, {}, RetNone)

\* Lines 456-459 and 472-476: the local index or None.
TransformDispatch(t, op) ==
  IF embeddings THEN Read(t, op, {<<"embeddings", op>>}, RetLocal)
  ELSE Read(t, op, {}, RetNone)

CountCall(t) ==
  /\ CountCanRun
  /\ Read(t, "count",
          IF cluster THEN {<<"cluster", "count">>}
          ELSE IF embeddings THEN {<<"embeddings", "count">>} ELSE {},
          count)

SearchCall(t) == \E l \in LimitInputs : Dispatch(t, "search", limit(l))

BatchSearchCall(t) == \E l \in LimitInputs : Dispatch(t, "batchsearch", limit(l))

SimilarityCall(t) == SimilarityDispatch(t, "similarity")

BatchSimilarityCall(t) == SimilarityDispatch(t, "batchsimilarity")

TransformCall(t) == TransformDispatch(t, "transform")

BatchTransformCall(t) == TransformDispatch(t, "batchtransform")

\* Lines 490-495: the extractor pipeline, only with a local index.
ExtractCall(t) ==
  IF embeddings /\ "extractor" \in pipelines
    THEN Read(t, "extract", {<<"pipeline", "extractor">>}, RetPipeline)
    ELSE Read(t, "extract", {}, RetNone)

\* ------------------------------------------------- scheduler: flows(), wait()
\* self.pool = None
NoPool == [exists |-> FALSE, closed |-> FALSE]
\* ThreadPool()
ThreadPool == [exists |-> TRUE, closed |-> FALSE]

\* config["workflow"]: up to MaxWorkflows workflows, each with or without a schedule.
WorkflowConfigs == UNION {[1..n -> BOOLEAN] : n \in 0..MaxWorkflows}

\* A submission of workflow w's schedule entry point.
Job(w, st) == [workflow |-> w, state |-> st]

\* Lines 151-152: "if not self.pool" creates the pool.
PoolMissingAlways == TRUE
PoolMissing == ~pool.exists

\* Lines 134-154, one pass of the loop: the workflow is created and, if it has a
\* schedule, the pool is created if there is none and the workflow's schedule entry
\* point is submitted with apply_async, which returns at once.
FlowsStep ==
  /\ pos <= Len(workflows)
  /\ pos' = pos + 1
  /\ IF workflows[pos] THEN
       /\ pool' = IF PoolMissing THEN ThreadPool ELSE pool
       /\ created' = IF PoolMissing THEN created + 1 ELSE created
       /\ jobs' = Append(jobs, Job(pos, "queued"))
     ELSE UNCHANGED <<pool, created, jobs>>
  /\ UNCHANGED <<gateway, pure, resolver, workflows, wpc, waits, wev>>

JobsIn(st) == Cardinality({i \in 1..Len(jobs) : jobs[i].state = st})

\* A worker of the pool takes the oldest queued submission.
JobStart ==
  /\ pool.exists
  /\ JobsIn("running") < NumWorkers
  /\ \E i \in 1..Len(jobs) :
       /\ jobs[i].state = "queued"
       /\ \A j \in 1..(i - 1) : jobs[j].state # "queued"
       /\ jobs' = [jobs EXCEPT ![i].state = "running"]
  /\ UNCHANGED <<gateway, pure, resolver, workflows, pos, pool, created, wpc, waits, wev>>

\* A scheduled workflow's execution completes.
JobFinish ==
  /\ \E i \in 1..Len(jobs) :
       /\ jobs[i].state = "running"
       /\ jobs' = [jobs EXCEPT ![i].state = "done"]
  /\ UNCHANGED <<gateway, pure, resolver, workflows, pos, pool, created, wpc, waits, wev>>

\* Line 557: wait() with no pool returns at once; it is called on a constructed
\* gateway.
WaitCall ==
  /\ pos > Len(workflows)
  /\ wpc = "idle"
  /\ waits < MaxWaits
  /\ waits' = waits + 1
  /\ IF pool.exists
       THEN wpc' = "close" /\ wev' = "running"
       ELSE wpc' = "idle" /\ wev' = "immediate"
  /\ UNCHANGED <<gateway, pure, resolver, workflows, pos, pool, created, jobs>>

\* Line 558: self.pool.close()
WaitClose ==
  /\ wpc = "close"
  /\ pool' = [pool EXCEPT !.closed = TRUE]
  /\ wpc' = "join"
  /\ UNCHANGED <<gateway, pure, resolver, workflows, pos, created, jobs, waits, wev>>

\* Line 559: self.pool.join() returns when the workers have run every submission.
JoinedAtOnce == TRUE
Joined == \A i \in 1..Len(jobs) : jobs[i].state = "done"

WaitJoin ==
  /\ wpc = "join"
  /\ Joined
  /\ wpc' = "discard"
  /\ UNCHANGED <<gateway, pure, resolver, workflows, pos, pool, created, jobs, waits, wev>>

\* Line 560: self.pool = None, and wait() returns.
WaitDiscard ==
  /\ wpc = "discard"
  /\ pool' = NoPool
  /\ wpc' = "idle"
  /\ wev' = "drained"
  /\ UNCHANGED <<gateway, pure, resolver, workflows, pos, created, jobs, waits>>

\* Lines 62-65 and 130: no pool, no workflow handled yet, nobody in wait().
SchedStart ==
  /\ pos = 1
  /\ pool = NoPool
  /\ created = 0
  /\ jobs = <<>>
  /\ wpc = "idle"
  /\ waits = 0
  /\ wev = "none"

\* ------------------------------------------------- functions applied on their own
Pending == [status |-> "pending", val |-> <<>>]
Returned(v) == [status |-> "ok", val |-> v]
ReturnedNone == [status |-> "none", val |-> <<>>]
Raises == [status |-> "raised", val |-> <<>>]

\* No function is being applied.
NoPure == fn = "none" /\ input = <<>> /\ output = Pending

\* Arguments of limit: None, and the integers and decimal strings from -LimitSpan to
\* MaxLimit + LimitSpan.
LimitArgs ==
  {NoLimit}
    \cup {Given(n) : n \in (0 - LimitSpan)..(MaxLimit + LimitSpan)}
    \cup {Text(n) : n \in (0 - LimitSpan)..(MaxLimit + LimitSpan)}

\* limit(x) on its own.
LimitApply ==
  /\ fn = "limit" /\ output.status = "pending"
  /\ output' = Returned(limit(input))
  /\ UNCHANGED <<gateway, sched, resolver, fn, input>>

\* ------------------------------------------------- result normalization
\* A score as the index or a pipeline returns it (a numpy float32 or an int), with
\* its value in tenths, and float(score).
Score(num, v) == [num |-> num, v |-> v]
float(score) == Score("float", score.v)

\* A result as a positional pair (id, score), and as a record {"id": .., "score": ..}.
Pair(id, score) == [kind |-> "tuple", id |-> id, score |-> score]
Result(id, score) == [kind |-> "dict", id |-> id, score |-> score]

\* Results an index or a pipeline may return.
Items ==
  {Pair(1, Score("float32", 9)), Pair(2, Score("int", 1)),
   Result(1, Score("float", 9)), Result(2, Score("float32", 5))}
ResultLists == UNION {[1..n -> Items] : n \in 0..MaxResults}

\* Results of a batch call: one list per query.
RECURSIVE Total(_)
Total(lists) == IF lists = <<>> THEN 0 ELSE Len(Head(lists)) + Total(Tail(lists))
BatchResults ==
  {b \in UNION {[1..n -> ResultLists] : n \in 0..MaxQueries} : Total(b) <= MaxResults}

\* Lines 247 and 273: {"id": r[0], "score": float(r[1])} if isinstance(r, tuple)
\* else r, for r in the results.
SearchResultsTuplesOnly(rs) ==
  LET ts == SelectSeq(rs, LAMBDA r : r.kind = "tuple")
  IN  [i \in 1..Len(ts) |-> Result(ts[i].id, float(ts[i].score))]
SearchResults(rs) ==
  [i \in 1..Len(rs) |->
     IF rs[i].kind = "tuple" THEN Result(rs[i].id, float(rs[i].score)) ELSE rs[i]]

\* "for uid, score in results" (lines 417, 419, 439, 441, 513, 516): a pair unpacks
\* into its id and score; a record unpacks into its keys, and float("score") raises.
Unpacks(rs) == \A i \in 1..Len(rs) : rs[i].kind = "tuple"
ScoreResults(rs) == [i \in 1..Len(rs) |-> Result(rs[i].id, float(rs[i].score))]

\* Result of a call applied on its own.
Apply(f, out) ==
  /\ fn = f /\ output.status = "pending"
  /\ output' = out
  /\ UNCHANGED <<gateway, sched, resolver, fn, input>>

\* Lines 243-249: search on the results the cluster or the local index returned.
SearchApply ==
  Apply("search",
        IF UseCluster THEN Returned(input)
        ELSE IF embeddings THEN Returned(SearchResults(input))
        ELSE ReturnedNone)

\* Lines 265-276.
BatchSearchApply ==
  Apply("batchsearch",
        IF UseCluster THEN Returned(input)
        ELSE IF embeddings
          THEN Returned([q \in 1..Len(input) |-> SearchResults(input[q])])
        ELSE ReturnedNone)

\* A list comprehension over "for uid, score in results".
Scored(rs) == IF Unpacks(rs) THEN Returned(ScoreResults(rs)) ELSE Raises
ScoredBatch(b) ==
  IF \A q \in 1..Len(b) : Unpacks(b[q])
    THEN Returned([q \in 1..Len(b) |-> ScoreResults(b[q])])
    ELSE Raises

\* Lines 416-421.
SimilarityApply ==
  Apply("similarity",
        IF "similarity" \in pipelines \/ embeddings THEN Scored(input) ELSE ReturnedNone)

\* Lines 438-443.
BatchSimilarityApply ==
  Apply("batchsimilarity",
        IF "similarity" \in pipelines \/ embeddings THEN ScoredBatch(input)
        ELSE ReturnedNone)

\* Lines 510-513: label with text a string.
LabelApply ==
  Apply("label", IF "labels" \in pipelines THEN Scored(input) ELSE ReturnedNone)

\* Lines 510-518: label with text a list.
LabelListApply ==
  Apply("labels", IF "labels" \in pipelines THEN ScoredBatch(input) ELSE ReturnedNone)

\* ------------------------------------------------- API.resolve / API.function
\* A field of a task: absent, a name, a resolved callable (a method of the gateway, a
\* pipeline of the registry, a pipeline constructed by name), or a list of those.
NoField == [kind |-> "absent", name |-> "", items |-> <<>>]
Name(n) == [kind |-> "str", name |-> n, items |-> <<>>]
Method(m) == [kind |-> "method", name |-> m, items |-> <<>>]
Registered(n) == [kind |-> "pipeline", name |-> n, items |-> <<>>]
Anonymous(n) == [kind |-> "anonymous", name |-> n, items |-> <<>>]
List(xs) == [kind |-> "list", name |-> "", items |-> xs]
\* PipelineFactory.create raised.
Failure == [kind |-> "error", name |-> "", items |-> <<>>]

\* Action names of a task: the two indexing actions, a pipeline the configuration
\* may register, and a built-in pipeline it does not.
ActionNames == {"index", "upsert", "similarity", "translation"}
FunctionNames == {"similarity", "translation"}

Task(action, initialize, finalize, unpack) ==
  [action |-> action, initialize |-> initialize, finalize |-> finalize,
   unpack |-> unpack]

\* Tasks of the configuration: "action" absent, a name or a list of names;
\* "initialize" and "finalize" absent or a name; "unpack" absent, True or False.
ConfigActions ==
  {NoField} \cup {Name(n) : n \in ActionNames}
    \cup {List(xs) : xs \in UNION {[1..n -> {Name(a) : a \in ActionNames}] : n \in 0..MaxActions}}
ConfigFunctions == {NoField} \cup {Name(n) : n \in FunctionNames}
ConfigTasks ==
  {Task(a, i, f, u) :
     a \in ConfigActions, i \in ConfigFunctions, f \in ConfigFunctions,
     u \in {"absent", "True", "False"}}

\* PipelineFactory.create({}, x) when x is not a name but a callable: it raises or
\* constructs something.
Outcomes == {"raise", "construct"}

\* Lines 205-209: the registry first, else PipelineFactory.create({}, function).
function(f, o) ==
  IF f.kind = "str" THEN
    IF f.name \in pipelines THEN Registered(f.name) ELSE Anonymous(f.name)
  ELSE IF o = "raise" THEN Failure
  ELSE Anonymous("callable")

\* Line 166: values = [action] if not isinstance(action, list) else action
Values(action) == IF action.kind = "list" THEN action.items ELSE <<action>>

\* Line 170: a in ["index", "upsert"]
IsIndexing(a) == a.kind = "str" /\ a.name \in {"index", "upsert"}

\* Line 178: self.upsert if a == "upsert" else self.index
FinalizerSwapped(a) == IF a.name = "upsert" THEN Method("index") ELSE Method("upsert")
Finalizer(a) == IF a.name = "upsert" THEN Method("upsert") ELSE Method("index")

\* Lines 170-181 for one value.
ResolveOne(a, o) == IF IsIndexing(a) THEN Method("add") ELSE function(a, o)

\* Lines 164-192: the task after resolve, whether resolve raised, and the number of
\* function() calls it made.
ResolveTask(t, o) ==
  LET values == Values(t.action)
      actions == [i \in 1..Len(values) |-> ResolveOne(values[i], o)]
      errors == {i \in 1..Len(values) : actions[i].kind = "error"}
      \* The loop of line 169 stops at the first value whose resolution raises.
      stop == IF errors = {} THEN Len(values) + 1
              ELSE CHOOSE i \in errors : \A j \in errors : i <= j
      done == {i \in 1..Len(values) : i < stop}
      indexing == {i \in done : IsIndexing(values[i])}
      last == IF indexing = {} THEN 0
              ELSE CHOOSE i \in indexing : \A j \in indexing : j <= i
      inloop == Cardinality({i \in 1..Len(values) : i <= stop /\ ~IsIndexing(values[i])})
      t1 == IF last = 0 THEN t
            ELSE [t EXCEPT !.unpack = "False", !.finalize = Finalizer(values[last])]
      t2 == [t1 EXCEPT !.action =
               IF t.action.kind = "list" THEN List(actions) ELSE actions[1]]
      init == IF t2.initialize.kind = "str" THEN function(t2.initialize, o)
              ELSE t2.initialize
      fin == IF t2.finalize.kind = "str" THEN function(t2.finalize, o) ELSE t2.finalize
      after == Cardinality({f \in {"initialize", "finalize"} : t2[f].kind = "str"})
  IN  IF t.action.kind = "absent" THEN
        [task |-> [t EXCEPT !.initialize = init, !.finalize = fin],
         raised |-> FALSE, lookups |-> after]
      ELSE IF errors # {} THEN
        [task |-> t1, raised |-> TRUE, lookups |-> inloop]
      ELSE
        [task |-> [t2 EXCEPT !.initialize = init, !.finalize = fin],
         raised |-> FALSE, lookups |-> inloop + after]

\* resolve(task), lines 156-192.
Resolve ==
  /\ resolves < MaxResolves
  /\ ~rev.raised
  /\ \E o \in Outcomes :
       LET r == ResolveTask(task, o) IN
       /\ task' = r.task
       /\ rev' = [raised |-> r.raised, lookups |-> r.lookups]
  /\ resolves' = resolves + 1
  /\ UNCHANGED <<gateway, sched, pure, task0>>

\* No task is being resolved.
NoTask ==
  /\ task = Task(NoField, NoField, NoField, "absent")
  /\ task0 = task
  /\ resolves = 0
  /\ rev = [raised |-> FALSE, lookups |-> 0]

\* ------------------------------------------------------------ Init
\* A gateway constructed from a configuration without workflows.
NoWorkflows == workflows = <<>> /\ SchedStart

GatewayInit ==
  /\ cluster \in BOOLEAN
  /\ embeddings \in BOOLEAN
  /\ writable \in BOOLEAN
  /\ path \in BOOLEAN
  /\ scoring \in IF embeddings THEN BOOLEAN ELSE {FALSE}
  /\ pipelines \in PipelineConfigs
  /\ documents = Absent
  /\ lock = {}
  /\ embIds \in IF embeddings /\ path THEN {{}, 0..MaxLoaded} ELSE {{}}
  /\ pc = [t \in Threads |-> "idle"]
  /\ arg = [t \in Threads |-> <<>>]
  /\ create = [t \in Threads |-> FALSE]
  /\ idx = [t \in Threads |-> 0]
  /\ calls = 0
  /\ ev = Event("init", {}, Running, FALSE)
  /\ submitted = <<>>
  /\ moved = FALSE
  /\ handed = NotHanded

Init == GatewayInit /\ NoWorkflows /\ NoPure /\ NoTask

Next ==
  \E t \in Threads :
    \/ AddCall(t)
    \/ AddAcquire(t)
    \/ AddCheck(t)
    \/ AddCreate(t)
    \/ AddIndex(t)
    \/ AddAppend(t)
    \/ IndexCall(t)
    \/ IndexAcquire(t)
    \/ IndexScore(t)
    \/ IndexBuild(t)
    \/ IndexSave(t)
    \/ IndexReset(t)
    \/ UpsertCall(t)
    \/ UpsertAcquire(t)
    \/ UpsertRun(t)
    \/ UpsertSave(t)
    \/ UpsertReset(t)
    \/ DeleteCall(t)
    \/ DeleteAcquire(t)
    \/ DeleteRun(t)
    \/ CountCall(t)
    \/ SearchCall(t)
    \/ BatchSearchCall(t)
    \/ SimilarityCall(t)
    \/ BatchSimilarityCall(t)
    \/ TransformCall(t)
    \/ BatchTransformCall(t)
    \/ ExtractCall(t)

Spec == Init /\ [][Next]_vars

\* ------------------------------------------------- fair scheduling
\* A writable gateway with a local index and no cluster: the configuration in which
\* the mutating calls take the lock.
InitLocal == Init /\ ~cluster /\ embeddings /\ writable /\ pipelines = {} /\ embIds = {}

\* Taking the lock (lines 294, 331, 355, 381).
Acquire(t) == AddAcquire(t) \/ IndexAcquire(t) \/ UpsertAcquire(t) \/ DeleteAcquire(t)

\* The statements inside a with block; each call of the local index terminates
\* (by returning or by raising).
Continue(t) ==
  \/ AddCheck(t) \/ AddCreate(t) \/ AddIndex(t) \/ AddAppend(t)
  \/ IndexScore(t) \/ IndexBuild(t) \/ IndexSave(t) \/ IndexReset(t)
  \/ UpsertRun(t) \/ UpsertSave(t) \/ UpsertReset(t)
  \/ DeleteRun(t)

\* Fair scheduling: a thread that can go on inside a with block does, and a thread
\* that finds the lock free again and again gets it.
Fairness == \A t \in Threads : WF_vars(Continue(t)) /\ SF_vars(Acquire(t))

SpecLive == InitLocal /\ [][Next]_vars /\ Fairness

\* ------------------------------------------------- construction and shutdown
\* Construction of a gateway from a configuration with workflows (flows(), called
\* at line 84), the pool's workers, and wait().
InitSched ==
  /\ GatewayInit
  /\ ~cluster /\ ~embeddings /\ ~writable /\ ~path /\ pipelines = {}
  /\ workflows \in WorkflowConfigs
  /\ SchedStart
  /\ NoPure
  /\ NoTask

NextSched ==
  \/ FlowsStep
  \/ JobStart
  \/ JobFinish
  \/ WaitCall
  \/ WaitClose
  \/ WaitJoin
  \/ WaitDiscard

SpecSched == InitSched /\ [][NextSched]_vars

\* ------------------------------------------------- limit and result normalization
\* A function of the gateway applied to one argument.
InitPure ==
  /\ cluster \in BOOLEAN
  /\ embeddings \in BOOLEAN
  /\ writable = FALSE /\ path = FALSE /\ scoring = FALSE
  /\ pipelines \in {{}, {"similarity", "labels"}}
  /\ documents = Absent
  /\ lock = {}
  /\ embIds = {}
  /\ pc = [t \in Threads |-> "idle"]
  /\ arg = [t \in Threads |-> <<>>]
  /\ create = [t \in Threads |-> FALSE]
  /\ idx = [t \in Threads |-> 0]
  /\ calls = 0
  /\ ev = Event("init", {}, Running, FALSE)
  /\ submitted = <<>>
  /\ moved = FALSE
  /\ handed = NotHanded
  /\ NoWorkflows
  /\ \/ fn = "limit" /\ input \in LimitArgs
     \/ fn \in {"search", "similarity", "label"} /\ input \in ResultLists
     \/ fn \in {"batchsearch", "batchsimilarity", "labels"} /\ input \in BatchResults
  /\ output = Pending
  /\ NoTask

NextPure ==
  \/ LimitApply
  \/ SearchApply
  \/ BatchSearchApply
  \/ SimilarityApply
  \/ BatchSimilarityApply
  \/ LabelApply
  \/ LabelListApply

SpecPure == InitPure /\ [][NextPure]_vars

\* ------------------------------------------------- task resolution
\* resolve applied to a task of the configuration (flows(), line 140), and applied
\* again to the task it has resolved.
InitResolve ==
  /\ GatewayInit
  /\ ~cluster /\ embeddings /\ ~writable /\ ~path /\ ~scoring
  /\ NoWorkflows
  /\ NoPure
  /\ task0 \in ConfigTasks
  /\ task = task0
  /\ resolves = 0
  /\ rev = [raised |-> FALSE, lookups |-> 0]

NextResolve ==
  \/ Resolve

SpecResolve == InitResolve /\ [][NextResolve]_vars

\* ------------------------------------------------------------ properties
\* Positions inside a "with self.lock" block.
AddCritical == {"add_check", "add_create", "add_index", "add_append"}
FlushCritical ==
  {"index_score", "index_build", "index_save", "index_reset",
   "upsert_run", "upsert_save", "upsert_reset"}
Critical == AddCritical \cup FlushCritical \cup {"delete_run"}

\* C1. No lost update: on a gateway without a cluster, whenever no add call is inside
\* its critical section, the buffer holds every document of every add call that has
\* returned since the buffer was last reset: its length is the sum of the batch
\* lengths, for every interleaving of the threads.
C1_NoLostUpdate ==
  (~cluster /\ \A t \in Threads : pc[t] \notin AddCritical)
    => Len(documents.docs) = Len(submitted)

\* C1 witness: two add calls of one document each have returned and the buffer
\* holds both documents.
C1_Witness ==
  /\ ~cluster
  /\ calls = 2
  /\ \A t \in Threads : pc[t] = "idle"
  /\ ev.op = "add" /\ ev.ret.kind = "input" /\ Len(ev.ret.val) = 1
  /\ Len(submitted) = 2
  /\ Len(documents.docs) = 2

\* At most one thread is inside a with block, it holds the lock, and the lock is
\* free when none is.
C2_Mutex ==
  ~cluster =>
    /\ Cardinality({t \in Threads : pc[t] \in Critical}) <= 1
    /\ \A t \in Threads : pc[t] \in Critical => lock = {t}
    /\ (\A t \in Threads : pc[t] \notin Critical) => lock = {}

\* A step that changes the buffer is a step of the thread that holds the lock.
C2_BufferStepUnderLock ==
  documents' # documents =>
    \E t \in Threads : lock = {t} /\ pc[t] \in Critical /\ pc'[t] # pc[t]

\* C2. Mutual exclusion: without a cluster at most one thread is inside the body of
\* a mutating operation, that thread holds the lock, and every step that creates,
\* appends to or resets the buffer is taken by the thread holding the lock.
C2_MutualExclusion == [](C2_Mutex) /\ [][C2_BufferStepUnderLock]_vars

\* C2 witness: one thread is appending inside add while the other waits for the lock.
C2_Witness ==
  /\ ~cluster
  /\ \E t, u \in Threads :
        /\ pc[t] = "add_append" /\ lock = {t}
        /\ pc[u] \in {"add_lock", "index_lock", "upsert_lock", "delete_lock"}

\* The triple the buffer must hold for a submitted document; the id of a bare string
\* is whatever the autosequence gave it.
Matches(triple, d) ==
  /\ d.kind = "dict" => triple = <<d.id, d, None>>
  /\ d.kind = "str" => triple[2] = d /\ triple[3] = None
  /\ d.kind = "tuple2" => triple = <<d.id, Str(d.text), None>>
  /\ d.kind = "tuple3" => triple = <<d.id, Str(d.text), d.tags>>

\* Positions of the buffer whose id was assigned by add.
AutoPositions == {i \in 1..Len(submitted) : submitted[i].kind = "str"}

\* The ids add gives to the bare strings of the batch it appends are in the persisted
\* index nowhere and differ from the id of every document before them in the buffer.
C3_FreshAt(t) ==
  (pc[t] = "add_append" /\ pc'[t] = "idle") =>
    \A i \in (Len(documents.docs) + 1)..Len(documents'.docs) :
      arg[t][i - Len(documents.docs)].kind = "str" =>
        /\ documents'.docs[i][1] \notin embIds
        /\ \A j \in 1..(i - 1) : documents'.docs[j][1] # documents'.docs[i][1]

\* C3 (as claimed). Whenever add assigns an id to a bare-text document, the id differs
\* from every id in the persisted index and from every id already in the buffer,
\* after any sequence of add, index, upsert and delete calls.
C3_AutoIdsNeverCollide == [][~cluster => \A t \in Threads : C3_FreshAt(t)]_vars

\* C4. With no flush and no change of the index since the buffer was created, the
\* buffer is the concatenation, in call order and in batch order, of the triples of
\* the submitted documents: (id, content, None) for a dictionary, a bare string or a
\* partial tuple (a full tuple is kept as it is), and the ids given to bare strings
\* increase strictly along the buffer.
C4_BufferIsConcatenation ==
  (~cluster /\ \A t \in Threads : pc[t] \notin AddCritical) =>
    /\ Len(documents.docs) = Len(submitted)
    /\ \A i \in 1..Len(submitted) : Matches(documents.docs[i], submitted[i])
    /\ ~moved =>
         \A i, j \in AutoPositions :
           i < j => documents.docs[i][1] < documents.docs[j][1]

\* C4 witness: three documents of two add calls are buffered, a bare string given id
\* 0, a partial tuple, and a second bare string with a larger id.
C4_Witness ==
  /\ ~cluster /\ ~moved
  /\ \A t \in Threads : pc[t] = "idle"
  /\ ev.op = "add" /\ ev.ret.kind = "input"
  /\ Len(submitted) = 2
  /\ submitted[1].kind = "str" /\ submitted[2].kind = "str"
  /\ Len(ev.ret.val) = 1
  /\ documents.docs[1][1] < documents.docs[2][1]

Mutating == {"add", "index", "upsert", "delete"}

\* C6 (as claimed). On a non-writable gateway, in every configuration, a mutating
\* call invokes no operation of the local index or of the cluster, delete returns
\* None, and nothing is raised.
C6_NotWritableNoOp ==
  (~writable /\ ev.op \in Mutating) =>
    /\ ev.calls = {}
    /\ ev.ret.kind # "raised"
    /\ ev.op = "delete" => ev.ret = RetNone

\* C6 (amended). On a non-writable gateway without a cluster a mutating call invokes
\* nothing, delete returns None and nothing is raised; with a cluster the call is
\* forwarded to the cluster, whatever "writable" says, and to nothing else.
C6_NotWritableNoOpLocal ==
  (~writable /\ ev.op \in Mutating) =>
    /\ ev.ret.kind # "raised"
    /\ ~cluster => ev.calls = {} /\ (ev.op = "delete" => ev.ret = RetNone)
    /\ cluster => ev.calls = {<<"cluster", ev.op>>}

\* C6 witness: delete on a non-writable gateway with a local index returned None.
C6_Witness ==
  /\ ~writable /\ embeddings /\ ~cluster
  /\ ev.op = "delete" /\ ev.ret = RetNone /\ ev.calls = {}
  /\ calls = 2

\* C7 (as claimed). When index() has returned on a writable gateway with a local
\* index and no call is running, the buffer is absent.
C7_IndexLeavesBufferAbsent ==
  (/\ ~cluster /\ embeddings /\ writable
   /\ ev.op = "index" /\ ev.ret = RetNone
   /\ \A t \in Threads : pc[t] = "idle")
    => ~documents.exists

Forwarded == {"add", "index", "upsert", "delete", "count", "search"}

\* C8. With a cluster configured, every call of add, index, upsert, delete, count
\* and search is forwarded to the cluster and calls nothing of the local index, and
\* the buffer stays absent, the lock free and the local index as it was.
C8_ClusterTakesAll ==
  cluster =>
    /\ documents = Absent
    /\ lock = {}
    /\ \A t \in Threads : pc[t] = "idle"
    /\ ev.op \in Forwarded => ev.calls = {<<"cluster", ev.op>>}

\* C8 witness: the third call on a gateway with a cluster and a writable local index
\* was an add, forwarded to the cluster.
C8_Witness ==
  /\ cluster /\ embeddings /\ writable
  /\ calls = 3
  /\ ev.op = "add" /\ ev.calls = {<<"cluster", "add">>}
  /\ documents = Absent

IndexOps ==
  {"search", "batchsearch", "add", "index", "upsert", "delete", "count", "similarity",
   "batchsimilarity", "transform", "batchtransform", "extract"}
ThreeWay == {"search", "batchsearch", "add", "index", "upsert", "delete", "count"}
LocalCalls == {c \in ev.calls : c[1] \in {"embeddings", "documents"}}

\* C9 (as claimed). Every operation that touches the index delegates to the cluster,
\* and to nothing else, when a cluster is configured.
C9_AllThreeWay ==
  (cluster /\ ev.op \in IndexOps) => ev.calls = {<<"cluster", ev.op>>}

\* C9 (amended). search, batchsearch, add, index, upsert, delete and count follow the
\* three-way decision: with a cluster they call the cluster and nothing else; without
\* one they call only the local index (the three reading ones always, the mutating
\* ones only inside their local branch); with neither they call nothing and the
\* reading ones return None. similarity and batchsimilarity call the similarity
\* pipeline if registered, else the local index, else return None; transform and
\* batchtransform call the local index or return None; extract calls the extractor
\* pipeline if it and a local index exist, else returns None. These five never call
\* the cluster.
C9_Dispatch ==
  /\ ev.op \in ThreeWay =>
       /\ cluster => ev.calls = {<<"cluster", ev.op>>}
       /\ ~cluster => ev.calls = LocalCalls
       /\ (~cluster /\ embeddings /\ ev.op \in {"search", "batchsearch", "count"})
            => ev.calls = {<<"embeddings", ev.op>>}
       /\ (~cluster /\ ~embeddings) =>
            /\ ev.calls = {}
            /\ ev.op # "add" => ev.ret = RetNone
  /\ ev.op \in {"similarity", "batchsimilarity"} =>
       IF "similarity" \in pipelines THEN ev.calls = {<<"pipeline", "similarity">>}
       ELSE IF embeddings THEN ev.calls = {<<"embeddings", ev.op>>}
       ELSE ev.calls = {} /\ ev.ret = RetNone
  /\ ev.op \in {"transform", "batchtransform"} =>
       IF embeddings THEN ev.calls = {<<"embeddings", ev.op>>}
       ELSE ev.calls = {} /\ ev.ret = RetNone
  /\ ev.op = "extract" =>
       IF embeddings /\ "extractor" \in pipelines
         THEN ev.calls = {<<"pipeline", "extractor">>}
         ELSE ev.calls = {} /\ ev.ret = RetNone

\* C9 witness: with a cluster and a local index configured, transform ran on the
\* local index.
C9_Witness ==
  /\ cluster /\ embeddings
  /\ ev.op = "transform" /\ ev.calls = {<<"embeddings", "transform">>}

\* The step in which a save fails: the call ends with the exception, the buffer is
\* untouched and the lock is free.
C10_SaveFails(t) ==
  (/\ pc[t] \in {"index_save", "upsert_save"}
   /\ pc'[t] = "idle"
   /\ ev'.calls = {<<"embeddings", "save">>})
    => /\ ev'.ret = Raised
       /\ documents' = documents
       /\ documents'.exists
       /\ lock' = {}

\* The state a failed save leaves: lock free, buffer present with all its documents.
C10_AfterFailedSave ==
  (ev.calls = {<<"embeddings", "save">>} /\ ev.ret = Raised) =>
    (lock = {} /\ documents.exists /\ Len(documents.docs) = Len(submitted))

\* C10. When the save inside index() or upsert() fails, the exception reaches the
\* caller, the buffer is the one the flush started with (not reset to absent), and
\* the lock is free again, so any thread can take it.
C10_FailedSaveKeepsBuffer ==
  [](C10_AfterFailedSave) /\ [][~cluster => \A t \in Threads : C10_SaveFails(t)]_vars

\* C10 witness: a save has just failed while another thread waits for the lock,
\* which is free.
C10_Witness ==
  /\ ev.calls = {<<"embeddings", "save">>} /\ ev.ret = Raised
  /\ lock = {}
  /\ Truthy(documents)
  /\ \E t \in Threads : pc[t] \in {"add_lock", "index_lock", "upsert_lock", "delete_lock"}

\* Positions of a call blocked on "with self.lock".
LockWaits == {"add_lock", "index_lock", "upsert_lock", "delete_lock"}

\* A thread about to take the lock does not hold it.
C11_NoReentry == \A t \in Threads : pc[t] \in LockWaits => t \notin lock

\* C11. Deadlock freedom: no thread asks for the lock it already holds (add's call of
\* count() takes no lock), and under fair scheduling every add, index, upsert and
\* delete that waits for the lock gets it and returns.
C11_DeadlockFree ==
  /\ [](C11_NoReentry)
  /\ \A t \in Threads : (pc[t] \in LockWaits) ~> (pc[t] = "idle")

\* C11 witness: a thread waits for the lock while the other, inside add's with block,
\* is about to call count().
C11_Witness ==
  \E t, u \in Threads :
    /\ pc[t] \in LockWaits
    /\ pc[u] = "add_index" /\ lock = {u}

\* Every scheduled run submitted to the pool has completed.
Completed == \A i \in 1..Len(jobs) : jobs[i].state = "done"

\* wait() is past the join only when every submission has completed, and once a
\* wait() has drained the pool every submission has completed and the pool is absent.
C12_Drained ==
  /\ wpc = "discard" => Completed
  /\ wev = "drained" => Completed /\ pool = NoPool
  /\ (waits >= 1 /\ wpc = "idle") => pool = NoPool

\* The step in which wait() returns: at once when there is no pool; otherwise only
\* from the discard, with every submission completed, leaving the pool absent.
C12_WaitReturns ==
  /\ (wpc = "idle" /\ waits' = waits + 1 /\ ~pool.exists)
       => wpc' = "idle" /\ wev' = "immediate" /\ pool' = NoPool
  /\ (wpc = "idle" /\ waits' = waits + 1 /\ pool.exists) => wpc' # "idle"
  /\ (wpc # "idle" /\ wpc' = "idle") => Completed /\ pool' = NoPool

\* C12. wait() called while a scheduled workflow is mid-execution does not return
\* before that execution has completed; after it returns the pool is absent; a
\* later wait() with no pending work returns at once.
C12_WaitDrains == [](C12_Drained) /\ [][C12_WaitReturns]_vars

\* C12 witness: a second wait() has returned at once after the first one drained a
\* pool that had run two scheduled workflows.
C12_Witness ==
  /\ waits = 2 /\ wpc = "idle" /\ wev = "immediate"
  /\ Len(jobs) = 2 /\ Completed
  /\ pool = NoPool

\* Submissions of workflow w.
Submissions(w) == Cardinality({i \in 1..Len(jobs) : jobs[i].workflow = w})

\* C19. While the gateway is constructed at most one pool is created, however many
\* workflows carry a schedule; it exists exactly when a scheduled workflow has been
\* handled (none without a schedule creates it); every scheduled workflow handled so
\* far has been submitted exactly once, to that pool, and no other workflow has; and
\* the loop can go on to the next workflow whatever the submitted runs are doing.
C19_OnePool ==
  /\ created <= 1
  /\ created = 1 <=> \E w \in 1..(pos - 1) : workflows[w]
  /\ waits = 0 => (pool.exists <=> created = 1)
  /\ \A w \in 1..Len(workflows) :
       Submissions(w) = IF w < pos /\ workflows[w] THEN 1 ELSE 0
  /\ pos <= Len(workflows) => ENABLED FlowsStep

\* C19 witness: construction has ended with three scheduled workflows submitted to
\* the one pool while the first is still running and the last still queued.
C19_Witness ==
  /\ pos > Len(workflows)
  /\ Len(jobs) = 3 /\ created = 1 /\ pool = ThreadPool
  /\ jobs[1].state = "running" /\ jobs[3].state = "queued"
  /\ waits = 0

\* max(1, min(250, n)) written out.
Clamped(n) == IF n < 1 THEN 1 ELSE IF n > 250 THEN 250 ELSE n

\* C13. limit(x) is always between 1 and 250: it is 10 when x is None or 0, and
\* max(1, min(250, x)) for every other integer x; limit(5) = 5, limit(1000) = 250
\* (as every x above 250), limit(-3) = 1.
C13_LimitClamped ==
  (fn = "limit" /\ output.status = "ok") =>
    /\ output.val \in 1..250
    /\ (input = NoLimit \/ input = Given(0)) => output.val = 10
    /\ (input.given /\ ~input.text /\ input.n # 0) => output.val = Clamped(input.n)
    /\ input = Given(5) => output.val = 5
    /\ (input.given /\ ~input.text /\ input.n > 250) => output.val = 250
    /\ input = Given(-3) => output.val = 1
    /\ limit(Given(1000)) = 250

\* C13 witness: limit(-3) has returned 1.
C13_Witness ==
  fn = "limit" /\ input = Given(-3) /\ output.status = "ok" /\ output.val = 1

\* A results list and its normal form: same length, same order, each pair the record
\* of its id and score, each record itself.
Normalized(rs, out) ==
  /\ Len(out) = Len(rs)
  /\ \A i \in 1..Len(rs) :
       /\ rs[i].kind = "tuple" =>
            /\ out[i].kind = "dict"
            /\ out[i].id = rs[i].id
            /\ out[i].score.v = rs[i].score.v
       /\ rs[i].kind = "dict" => out[i] = rs[i]
NormalizedBatch(b, out) ==
  Len(out) = Len(b) /\ \A q \in 1..Len(b) : Normalized(b[q], out[q])

NormalizedOutput ==
  /\ output.status = "ok"
  /\ IF fn \in {"search", "similarity", "label"}
       THEN Normalized(input, output.val)
       ELSE NormalizedBatch(input, output.val)

SearchFamily ==
  {"search", "batchsearch", "similarity", "batchsimilarity", "label", "labels"}

\* C14 (as claimed). Each of search, batchsearch, similarity, batchsimilarity and
\* label that produces a result normalizes every result sequence mixing pairs and
\* records: same length and order, a pair becomes its record, a record passes
\* through unchanged.
C14_Uniform ==
  (fn \in SearchFamily /\ output.status \notin {"pending", "none"}) => NormalizedOutput

\* Every result of the argument is a pair.
AllPairs ==
  IF fn \in {"search", "similarity", "label"} THEN Unpacks(input)
  ELSE \A q \in 1..Len(input) : Unpacks(input[q])

\* C14 (amended). search and batchsearch on a local index (no cluster) normalize
\* every result sequence mixing pairs and records: same length and order, a pair
\* becomes the record of its id and float(score), a record passes through
\* unchanged; with a cluster they return the cluster's results as they are.
\* similarity, batchsimilarity and label normalize sequences of pairs in the same
\* way and raise when a result is a record.
C14_Normalization ==
  (fn \in SearchFamily /\ output.status \notin {"pending", "none"}) =>
    /\ (fn \in {"search", "batchsearch"} /\ ~cluster) => NormalizedOutput
    /\ (fn \in {"search", "batchsearch"} /\ cluster) =>
         output.status = "ok" /\ output.val = input
    /\ (fn \notin {"search", "batchsearch"} /\ AllPairs) => NormalizedOutput
    /\ (fn \notin {"search", "batchsearch"} /\ ~AllPairs) => output.status = "raised"

\* C14 witness: search on a local index returned a pair and a record, in that
\* order, as two records.
C14_Witness ==
  /\ fn = "search" /\ ~cluster /\ embeddings
  /\ input = <<Pair(1, Score("float32", 9)), Result(2, Score("float32", 5))>>
  /\ output.status = "ok"
  /\ output.val = <<Result(1, Score("float", 9)), Result(2, Score("float32", 5))>>

\* What a name other than index and upsert resolves to: the pipeline registered
\* under it, else a pipeline constructed by that name.
Lookup(n) == IF n \in pipelines THEN Registered(n) ELSE Anonymous(n)

\* Names of the configured action, and the callable resolve put at position i.
Named == IF task0.action.kind = "list" THEN task0.action.items ELSE <<task0.action>>
ResolvedAt(i) == IF task0.action.kind = "list" THEN task.action.items[i] ELSE task.action
IndexingAt == {i \in 1..Len(Named) : Named[i].name \in {"index", "upsert"}}

\* C15. After resolve of a configured task: every action name index or upsert is
\* replaced by the gateway's add, unpack is False and finalize is the gateway's
\* index method for index and its upsert method for upsert (that of the last such
\* name when a list has both); every other name is the pipeline registered under
\* it, else a pipeline constructed by that name; a single name gives a single
\* callable and a list gives a list of the same length and order.
C15_ActionResolution ==
  (resolves = 1 /\ task0.action.kind # "absent") =>
    /\ ~rev.raised
    /\ task0.action.kind = "str" => task.action.kind \in {"method", "pipeline", "anonymous"}
    /\ task0.action.kind = "list" =>
         task.action.kind = "list" /\ Len(task.action.items) = Len(Named)
    /\ \A i \in 1..Len(Named) :
         ResolvedAt(i) =
           IF Named[i].name \in {"index", "upsert"} THEN Method("add")
           ELSE Lookup(Named[i].name)
    /\ IndexingAt # {} =>
         /\ task.unpack = "False"
         /\ \E i \in IndexingAt :
              /\ \A j \in IndexingAt : j <= i
              /\ task.finalize = Method(Named[i].name)
    /\ IndexingAt = {} =>
         /\ task.unpack = task0.unpack
         /\ task.finalize =
              IF task0.finalize.kind = "str" THEN Lookup(task0.finalize.name)
              ELSE task0.finalize
    /\ task.initialize =
         IF task0.initialize.kind = "str" THEN Lookup(task0.initialize.name)
         ELSE task0.initialize

\* C15 witness: the list [upsert, similarity] of a task with unpack True and a
\* finalize name has been resolved to [add, the registered similarity pipeline],
\* with unpack False and finalize the gateway's upsert.
C15_Witness ==
  /\ resolves = 1
  /\ "similarity" \in pipelines
  /\ task0 = Task(List(<<Name("upsert"), Name("similarity")>>), NoField,
                  Name("translation"), "True")
  /\ task = Task(List(<<Method("add"), Registered("similarity")>>), NoField,
                 Method("upsert"), "False")

\* C17 (as claimed). resolve applied to a task already resolved does not raise,
\* leaves action, initialize, finalize and unpack unchanged, and makes no registry
\* lookup and no pipeline construction.
C17_Idempotent ==
  [][(resolves = 1 /\ resolves' = 2) =>
       (task' = task /\ ~rev'.raised /\ rev'.lookups = 0)]_vars

\* C16 (as claimed). On a writable local gateway, whenever a thread holding the lock
\* is in the flush body of index() or upsert() (scoring, build or upsert, save,
\* reset) a buffer exists, and no call of the local index or of the reset was handed
\* an absent buffer.
C16_FlushSeesBuffer ==
  (~cluster /\ embeddings /\ writable) =>
    /\ \A t \in Threads : (pc[t] \in FlushCritical /\ lock = {t}) => documents.exists
    /\ ~ev.nobuf

\* A step of thread t from position a to position b that calls c.
C18_Step(t, a, b, c) == pc[t] = a /\ pc'[t] = b /\ ev'.calls = {c}

\* The step ends the call with an exception.
C18_Raises(t, c) == pc'[t] = "idle" /\ ev'.calls = {c} /\ ev'.ret = Raised

\* The steps of one flush by thread t, each taken with the lock held by t: what
\* follows each position, and what each position follows.
C18_Order(t) ==
  /\ (pc[t] = "index_lock" /\ pc'[t] # pc[t]) =>
       /\ pc'[t] = IF scoring THEN "index_score" ELSE "index_build"
       /\ lock = {} /\ lock' = {t}
  /\ (pc[t] = "index_score" /\ pc'[t] # pc[t]) =>
       /\ lock = {t} /\ scoring
       /\ \/ C18_Step(t, "index_score", "index_build", <<"embeddings", "score">>)
          \/ C18_Raises(t, <<"embeddings", "score">>)
  /\ (pc[t] = "index_build" /\ pc'[t] # pc[t]) =>
       /\ lock = {t}
       /\ \/ /\ C18_Step(t, "index_build", IF path THEN "index_save" ELSE "index_reset",
                          <<"embeddings", "index">>)
             /\ embIds' = {documents.docs[i][1] : i \in 1..Len(documents.docs)}
          \/ C18_Raises(t, <<"embeddings", "index">>)
  /\ (pc[t] = "upsert_lock" /\ pc'[t] # pc[t]) =>
       pc'[t] = "upsert_run" /\ lock = {} /\ lock' = {t}
  /\ (pc[t] = "upsert_run" /\ pc'[t] # pc[t]) =>
       /\ lock = {t}
       /\ \/ C18_Step(t, "upsert_run", IF path THEN "upsert_save" ELSE "upsert_reset",
                       <<"embeddings", "upsert">>)
          \/ C18_Raises(t, <<"embeddings", "upsert">>)
  /\ \A op \in {"index", "upsert"} :
       LET save == IF op = "index" THEN "index_save" ELSE "upsert_save"
           reset == IF op = "index" THEN "index_reset" ELSE "upsert_reset"
       IN  /\ (pc[t] = save /\ pc'[t] # pc[t]) =>
                /\ lock = {t} /\ path /\ documents' = documents
                /\ \/ C18_Step(t, save, reset, <<"embeddings", "save">>)
                   \/ C18_Raises(t, <<"embeddings", "save">>)
           /\ (pc[t] = reset /\ pc'[t] # pc[t] /\ documents.exists) =>
                /\ lock = {t} /\ lock' = {}
                /\ C18_Step(t, reset, "idle", <<"documents", "close">>)
                /\ documents' = Absent
                /\ ev'.op = op /\ ev'.ret = RetNone
           /\ (pc'[t] = reset /\ pc[t] # pc'[t]) =>
                pc[t] = IF path THEN save
                        ELSE IF op = "index" THEN "index_build" ELSE "upsert_run"

\* The buffer is reset to absent only by the last step of a flush.
C18_ResetLast ==
  (documents.exists /\ ~documents'.exists) =>
    \E t \in Threads : pc[t] \in {"index_reset", "upsert_reset"} /\ pc'[t] = "idle"

\* C18. Flush step ordering: within one index() on a writable local gateway the
\* steps are the scoring pre-pass (only if the index requires one), the full build
\* from the buffer, the save (only if a path is configured), the buffer reset to
\* absent; within one upsert() they are upsert, save (if path), reset; each is taken
\* by the thread holding the lock, and the reset never comes before the save.
C18_FlushOrder ==
  [][(~cluster => \A t \in Threads : C18_Order(t)) /\ C18_ResetLast]_vars

\* C18 witness: an index() with a scoring pre-pass and a configured path has just
\* reset a buffer of two documents, after the build and the save.
C18_Witness ==
  /\ ~cluster /\ scoring /\ path
  /\ ev.op = "index" /\ ev.calls = {<<"documents", "close">>} /\ ev.ret = RetNone
  /\ documents = Absent /\ lock = {}
  /\ Cardinality(embIds) = 2

\* The step in which thread t hands the buffer to index or upsert.
C20_Hands(t) == pc[t] \in {"index_build", "upsert_run"} /\ pc'[t] \notin {pc[t], "idle"}

\* The buffer after the step holds every document it held before, in place.
C20_Keeps ==
  /\ Len(documents'.docs) >= Len(documents.docs)
  /\ \A i \in 1..Len(documents.docs) : documents'.docs[i] = documents.docs[i]

\* A flush hands over the whole buffer, which holds the triple of every document
\* accepted since the last reset, and documents leave the buffer only in the reset
\* of a flush that handed over exactly the buffer being reset.
C20_Steps ==
  /\ \A t \in Threads :
       C20_Hands(t) =>
         /\ handed'.docs = documents.docs
         /\ Len(documents.docs) = Len(submitted)
         /\ \A i \in 1..Len(submitted) : Matches(documents.docs[i], submitted[i])
  /\ ~C20_Keeps =>
       /\ \E t \in Threads : pc[t] \in {"index_reset", "upsert_reset"} /\ pc'[t] = "idle"
       /\ handed.state \in {"once", "failed"}
       /\ handed.docs = documents.docs

\* No buffer is handed to a second flush unless the flush before it raised; and
\* between flushes the buffer holds as many documents as the adds accepted.
C20_Once ==
  /\ handed.state # "twice"
  /\ (\A t \in Threads : pc[t] \notin AddCritical) => Len(documents.docs) = Len(submitted)

\* C20. No document is dropped or flushed twice: on a writable local gateway, for
\* every interleaving of add, index and upsert, each document accepted by an add is
\* in the buffer until a flush hands it to the local index, it is handed over by one
\* flush only (unless a call of the local index fails), and a reset discards only
\* the documents of the buffer handed to the flush it ends.
C20_NoDropNoDoubleFlush == [](~cluster => C20_Once) /\ [][~cluster => C20_Steps]_vars

\* C20 witness: an upsert has handed a buffer of one document to the local index
\* and is about to reset it while an add of one document by the other thread waits
\* for the lock.
C20_Witness ==
  \E t, u \in Threads :
    /\ pc[t] = "upsert_reset" /\ lock = {t}
    /\ handed.state = "once" /\ Len(handed.docs) = 1
    /\ handed.docs = documents.docs
    /\ pc[u] = "add_lock" /\ Len(arg[u]) = 1
====
